---- MODULE Spec2Model ----
(***************************************************************************)
(* UX Starter (Google Apps Script): one recommendation slide per           *)
(* spreadsheet row, an image resolver over a Drive folder, and a deck      *)
(* finisher.                                                               *)
(*                                                                         *)
(* A JavaScript string is modelled as the sequence of its characters       *)
(* (one-character TLA+ strings), so that split, join, concatenation, trim  *)
(* and substring search are computed and not assumed.                      *)
(***************************************************************************)
EXTENDS Naturals, Sequences, FiniteSets, TLC

VARIABLES
    documentProperties,         \* the document's key/value configuration store
    recommendationSlideLayout,  \* the template layout of a recommendation slide
    folder,                     \* the Drive folder: its files in enumeration order
    deck,                       \* the generated deck: its slides in order
    call,                       \* the last function invoked and what it did
    cell,                       \* an "applies to" cell handed to the subtitle builder
    subtitle                    \* the subtitle text built from it (empty: not built yet)

vars == <<documentProperties, recommendationSlideLayout, folder, deck, call,
          cell, subtitle>>

(***************************************************************************)
(* Bounds of the model.                                                    *)
(***************************************************************************)
\* Files in the Drive folder.
MaxFiles == 2
\* Slides in the generated deck.
MaxSlides == 3
\* Length of the strings the pure string functions are explored on.
MaxLen == 4

(***************************************************************************)
(* Message constants.                                                      *)
(***************************************************************************)
WARNING_NO_IMAGES ==
    << "N","o"," ","i","m","a","g","e"," ","f","o","u","n","d"," ",
       "f","o","r"," ","c","r","i","t","e","r","i","a"," ","i","d"," " >>

\* A distinct text for the second condition: what the constant's name promises.
WARNING_MULTIPLE_IMAGES_Distinct ==
    << "M","u","l","t","i","p","l","e"," ","i","m","a","g","e","s"," ",
       "f","o","r"," ","c","r","i","t","e","r","i","a"," ","i","d"," " >>

WARNING_MULTIPLE_IMAGES ==
    << "N","o"," ","i","m","a","g","e"," ","f","o","u","n","d"," ",
       "f","o","r"," ","c","r","i","t","e","r","i","a"," ","i","d"," " >>

(***************************************************************************)
(* JavaScript string primitives.                                           *)
(***************************************************************************)
\* All strings over alphabet of length at most n.
RECURSIVE Strings(_, _)
Strings(alphabet, n) ==
    IF n = 0 THEN { <<>> }
    ELSE LET shorter == Strings(alphabet, n - 1)
         IN  shorter \cup { Append(s, c) : s \in shorter, c \in alphabet }

\* String.prototype.includes / Drive's "contains": sub occurs in s.
Contains(s, sub) ==
    \E i \in 0..Len(s) :
        /\ i + Len(sub) <= Len(s)
        /\ SubSeq(s, i + 1, i + Len(sub)) = sub

\* s.split(','): the pieces between the commas; the empty string gives [''].
RECURSIVE Split(_)
Split(s) ==
    IF \A i \in 1..Len(s) : s[i] # ","
    THEN << s >>
    ELSE LET i == CHOOSE k \in 1..Len(s) :
                      s[k] = "," /\ \A j \in 1..(k - 1) : s[j] # ","
         IN  << SubSeq(s, 1, i - 1) >> \o Split(SubSeq(s, i + 1, Len(s)))

\* parts.join(', '): a join that reformats the list.
RECURSIVE JoinSpaced(_)
JoinSpaced(parts) ==
    IF parts = << >> THEN << >>
    ELSE IF Len(parts) = 1 THEN parts[1]
    ELSE parts[1] \o << ",", " " >> \o JoinSpaced(Tail(parts))

\* parts.join(',').
RECURSIVE Join(_)
Join(parts) ==
    IF parts = << >> THEN << >>
    ELSE IF Len(parts) = 1 THEN parts[1]
    ELSE parts[1] \o << "," >> \o Join(Tail(parts))

\* String.prototype.trim: leading and trailing blanks removed.
RECURSIVE Trim(_)
Trim(s) ==
    IF s = << >> THEN s
    ELSE IF Head(s) = " " THEN Trim(Tail(s))
    ELSE IF s[Len(s)] = " " THEN Trim(SubSeq(s, 1, Len(s) - 1))
    ELSE s

DigitValue(c) ==
    CASE c = "0" -> 0 [] c = "1" -> 1 [] c = "2" -> 2 [] c = "3" -> 3
      [] c = "4" -> 4 [] c = "5" -> 5 [] c = "6" -> 6 [] c = "7" -> 7
      [] c = "8" -> 8 [] c = "9" -> 9

\* The numeric coercion of `getProperty(...) - 1`: a digit string to its number.
RECURSIVE ToNumber(_)
ToNumber(s) ==
    IF s = << >> THEN 0
    ELSE 10 * ToNumber(SubSeq(s, 1, Len(s) - 1)) + DigitValue(s[Len(s)])

\* row[index] for a 0-based JavaScript index into a 1-based sequence.
JsIndex(row, index) == row[index + 1]

(***************************************************************************)
(* Values of the host platform.                                            *)
(***************************************************************************)
Null == [type |-> "null"]
Str(s) == [type |-> "string", text |-> s]
FileRef(f) == [type |-> "file", file |-> f]

IMAGE == << "i","m","a","g","e" >>

\* The files a user may have put in the screenshots folder.
Screenshot1 ==
    [id |-> 1, title |-> << "1" >>,
     mimeType |-> << "i","m","a","g","e","/","p","n","g" >>]
Screenshot12 ==
    [id |-> 2, title |-> << "1","2" >>,
     mimeType |-> << "i","m","a","g","e","/","j","p","e","g" >>]
ScreenshotX1 ==
    [id |-> 3, title |-> << "x","1" >>,
     mimeType |-> << "i","m","a","g","e","/","p","n","g" >>]
Notes12 ==
    [id |-> 4, title |-> << "1","2" >>,
     mimeType |-> << "t","e","x","t","/","c","s","v" >>]

DriveFiles == { Screenshot1, Screenshot12, ScreenshotX1, Notes12 }

\* The folders: every enumeration order of at most MaxFiles distinct files.
RECURSIVE Folders(_)
Folders(n) ==
    IF n = 0 THEN { << >> }
    ELSE LET shorter == Folders(n - 1)
         IN  shorter \cup
             { Append(fs, f) : fs \in { g \in shorter : Len(g) = n - 1 },
                               f \in DriveFiles }

NoDuplicates(fs) == \A i, j \in 1..Len(fs) : fs[i] = fs[j] => i = j

\* The two column layouts of the recommendations sheet, as loaded properties.
Configurations ==
    { [RECOMMENDATIONS_CRITERIA_ID_ROW |-> << "1" >>,
       RECOMMENDATIONS_CRITERIA_NAME_ROW |-> << "2" >>,
       RECOMMENDATIONS_APPLIES_ROW |-> << "3" >>,
       RECOMMENDATIONS_PROBLEM_STATEMENT_ROW |-> << "4" >>,
       RECOMMENDATIONS_SOLUTION_STATEMENT_ROW |-> << "5" >>,
       RECOMMENDATIONS_IMAGE_MOCKUP_ROW |-> << "6" >>,
       RECOMMENDATIONS_INSIGHTS_ROW |-> << "7" >>,
       DEFAULT_IMAGE_MOCKUP |-> << "d" >>,
       INSIGHTS_DECK_ID |-> << "I" >>,
       END_SLIDE_ID |-> << " ", "E" >>],
      [RECOMMENDATIONS_CRITERIA_ID_ROW |-> << "7" >>,
       RECOMMENDATIONS_CRITERIA_NAME_ROW |-> << "6" >>,
       RECOMMENDATIONS_APPLIES_ROW |-> << "5" >>,
       RECOMMENDATIONS_PROBLEM_STATEMENT_ROW |-> << "4" >>,
       RECOMMENDATIONS_SOLUTION_STATEMENT_ROW |-> << "3" >>,
       RECOMMENDATIONS_IMAGE_MOCKUP_ROW |-> << "2" >>,
       RECOMMENDATIONS_INSIGHTS_ROW |-> << "1" >>,
       DEFAULT_IMAGE_MOCKUP |-> << "e" >>,
       INSIGHTS_DECK_ID |-> << "I" >>,
       END_SLIDE_ID |-> << "E", " " >>] }

\* documentProperties.getProperty(key)
GetProperty(key) == documentProperties[key]

\* The template layouts: named shapes with their bounding boxes.
Layouts ==
    { [name |-> "wide",
       shapes |-> { [name |-> "best-practice",
                     left |-> 10, top |-> 20, width |-> 30, height |-> 40],
                    [name |-> "client-mockup",
                     left |-> 50, top |-> 20, width |-> 35, height |-> 45],
                    [name |-> "logo",
                     left |-> 0, top |-> 0, width |-> 5, height |-> 5] }],
      [name |-> "tall",
       shapes |-> { [name |-> "best-practice",
                     left |-> 1, top |-> 2, width |-> 3, height |-> 4],
                    [name |-> "client-mockup",
                     left |-> 1, top |-> 8, width |-> 3, height |-> 6] }] }

\* The slides of the insights deck, by id.
InsightDeck == { << "S" >>, << "T" >>, << "E" >> }

(***************************************************************************)
(* The slides API.                                                         *)
(***************************************************************************)
\* deck.appendSlide(layout): the new slide, its placeholders still empty.
NewSlide(layout) ==
    [kind |-> "recommendation", layout |-> layout.name,
     title |-> << >>, subtitle |-> << >>, body |-> << >>,
     shapes |-> layout.shapes, images |-> << >>]

\* deck.appendSlide(slide, NOT_LINKED): a copy of a slide of another deck.
CopiedSlide(id) == [kind |-> "copy", source |-> id, linked |-> FALSE]

\* slide.insertImage(src, left, top, width, height)
InsertImage(slide, src, left, top, width, height) ==
    [slide EXCEPT !.images = Append(@, [src |-> src, left |-> left, top |-> top,
                                        width |-> width, height |-> height])]

\* retrieveShape(slide, name): the shape of the slide with that name.
RetrieveShape(slide, name) == CHOOSE sh \in slide.shapes : sh.name = name

\* folder.searchFiles("title contains '<id>' and mimeType contains 'image'")
SearchFiles(fld, criteriaId) ==
    SelectSeq(fld, LAMBDA f : Contains(f.title, criteriaId)
                              /\ Contains(f.mimeType, IMAGE))

\* A toast on the active spreadsheet; `at` is the statement that raised it.
Toast(at, text) == [at |-> at, text |-> text]

(***************************************************************************)
(* retrieveClientImage                                                     *)
(***************************************************************************)
\* What the doc comment describes: with several matches the last one is kept.
RetrieveClientImage_LastWins(fld, criteriaId) ==
    LET files == SearchFiles(fld, criteriaId)
        found == files # << >>
        file1 == IF found THEN FileRef(files[Len(files)]) ELSE Null
        rest == IF found THEN Tail(files) ELSE files
        toasts1 == IF found THEN << >>
                   ELSE << Toast("no-images", WARNING_NO_IMAGES \o criteriaId) >>
        toasts2 == IF rest # << >>
                   THEN Append(toasts1, Toast("multiple-images",
                                              WARNING_MULTIPLE_IMAGES \o criteriaId))
                   ELSE toasts1
        file2 == IF file1 = Null
                 THEN Str(GetProperty("DEFAULT_IMAGE_MOCKUP")) ELSE file1
    IN  [ret |-> file2, toasts |-> toasts2]

\* The fallback to the default image left out.
RetrieveClientImage_NoFallback(fld, criteriaId) ==
    LET files == SearchFiles(fld, criteriaId)
        found == files # << >>
        file1 == IF found THEN FileRef(Head(files)) ELSE Null
        rest == IF found THEN Tail(files) ELSE files
        toasts1 == IF found THEN << >>
                   ELSE << Toast("no-images", WARNING_NO_IMAGES \o criteriaId) >>
        toasts2 == IF rest # << >>
                   THEN Append(toasts1, Toast("multiple-images",
                                              WARNING_MULTIPLE_IMAGES \o criteriaId))
                   ELSE toasts1
    IN  [ret |-> file1, toasts |-> toasts2]

\* The second test asking a fresh iterator: it warns whenever a file matches.
RetrieveClientImage_FreshIterator(fld, criteriaId) ==
    LET files == SearchFiles(fld, criteriaId)
        found == files # << >>
        file1 == IF found THEN FileRef(Head(files)) ELSE Null
        toasts1 == IF found THEN << >>
                   ELSE << Toast("no-images", WARNING_NO_IMAGES \o criteriaId) >>
        toasts2 == IF files # << >>
                   THEN Append(toasts1, Toast("multiple-images",
                                              WARNING_MULTIPLE_IMAGES \o criteriaId))
                   ELSE toasts1
        file2 == IF file1 = Null
                 THEN Str(GetProperty("DEFAULT_IMAGE_MOCKUP")) ELSE file1
    IN  [ret |-> file2, toasts |-> toasts2]

\* files is the iterator: the matches not yet consumed. The first hasNext()
\* consumes one match with next(); the second hasNext() asks for another.
RetrieveClientImage(fld, criteriaId) ==
    LET files == SearchFiles(fld, criteriaId)
        found == files # << >>
        file1 == IF found THEN FileRef(Head(files)) ELSE Null
        rest == IF found THEN Tail(files) ELSE files
        toasts1 == IF found THEN << >>
                   ELSE << Toast("no-images", WARNING_NO_IMAGES \o criteriaId) >>
        toasts2 == IF rest # << >>
                   THEN Append(toasts1, Toast("multiple-images",
                                              WARNING_MULTIPLE_IMAGES \o criteriaId))
                   ELSE toasts1
        file2 == IF file1 = Null
                 THEN Str(GetProperty("DEFAULT_IMAGE_MOCKUP")) ELSE file1
    IN  [ret |-> file2, toasts |-> toasts2]

(***************************************************************************)
(* createRecommendationSlideGAS                                            *)
(***************************************************************************)
\* The two images inserted at each other's anchor shape.
CreateRecommendationSlideGAS_Swapped(d, layout, criteria, applicable, description, imageMockup, clientImage) ==
    LET slide0 == NewSlide(layout)
        slide1 == [slide0 EXCEPT !.title = criteria]
        slide2 == [slide1 EXCEPT !.subtitle = applicable]
        slide3 == [slide2 EXCEPT !.body = description]
        baseShape == RetrieveShape(slide3, "client-mockup")
        clientShape == RetrieveShape(slide3, "best-practice")
        slide4 == InsertImage(slide3, Str(imageMockup),
                              baseShape.left, baseShape.top,
                              baseShape.width, baseShape.height)
        slide5 == InsertImage(slide4, clientImage,
                              clientShape.left, clientShape.top,
                              clientShape.width, clientShape.height)
    IN  Append(d, slide5)

\* The deck after the call: one more slide, filled in. imageMockup is a URL
\* string, clientImage a file or a URL string.
CreateRecommendationSlideGAS(d, layout, criteria, applicable, description, imageMockup, clientImage) ==
    LET slide0 == NewSlide(layout)
        slide1 == [slide0 EXCEPT !.title = criteria]
        slide2 == [slide1 EXCEPT !.subtitle = applicable]
        slide3 == [slide2 EXCEPT !.body = description]
        baseShape == RetrieveShape(slide3, "best-practice")
        clientShape == RetrieveShape(slide3, "client-mockup")
        slide4 == InsertImage(slide3, Str(imageMockup),
                              baseShape.left, baseShape.top,
                              baseShape.width, baseShape.height)
        slide5 == InsertImage(slide4, clientImage,
                              clientShape.left, clientShape.top,
                              clientShape.width, clientShape.height)
    IN  Append(d, slide5)

(***************************************************************************)
(* appendInsightSlides: for each id in turn, the slide of the insights     *)
(* deck with that id is copied, unlinked, to the end of the deck. An id    *)
(* with no slide in the insights deck has nothing to copy.                 *)
(***************************************************************************)
RECURSIVE AppendInsightSlides(_, _, _)
AppendInsightSlides(d, insightDeck, insights) ==
    IF insights = << >> THEN d
    ELSE LET id == Head(insights)
             d1 == IF id \in insightDeck THEN Append(d, CopiedSlide(id)) ELSE d
         IN  AppendInsightSlides(d1, insightDeck, Tail(insights))

(***************************************************************************)
(* parseFieldsAndCreateSlide                                               *)
(***************************************************************************)
APPLIES_FOR == << "A","p","p","l","i","e","s"," ","f","o","r",":"," " >>
NEWLINE == << "\n" >>

criteriaIdIndex ==
    ToNumber(GetProperty("RECOMMENDATIONS_CRITERIA_ID_ROW")) - 1
criteriaNameIndex ==
    ToNumber(GetProperty("RECOMMENDATIONS_CRITERIA_NAME_ROW")) - 1
criteriaAppliesIndex ==
    ToNumber(GetProperty("RECOMMENDATIONS_APPLIES_ROW")) - 1
criteriaProblemStatementIndex ==
    ToNumber(GetProperty("RECOMMENDATIONS_PROBLEM_STATEMENT_ROW")) - 1
criteriaSolutionStatementIndex ==
    ToNumber(GetProperty("RECOMMENDATIONS_SOLUTION_STATEMENT_ROW")) - 1
criteriaImageMockupIndex ==
    ToNumber(GetProperty("RECOMMENDATIONS_IMAGE_MOCKUP_ROW")) - 1
criteriaDefaultImageUrl == GetProperty("DEFAULT_IMAGE_MOCKUP")
criteriaInsightSlidesIndex ==
    ToNumber(GetProperty("RECOMMENDATIONS_INSIGHTS_ROW")) - 1

\* `Applies for: ${appliesCell.split(',').join(',')}`
Applicable(appliesCell) == APPLIES_FOR \o Join(Split(appliesCell))

\* row[problem] + '\n' + row[solution]
Description(row) ==
    JsIndex(row, criteriaProblemStatementIndex) \o NEWLINE
        \o JsIndex(row, criteriaSolutionStatementIndex)

\* The cell taken as it is, blank or not.
ImageMockup_NoDefault(row) == JsIndex(row, criteriaImageMockupIndex)

\* row[image] === '' ? default : row[image]
ImageMockup(row) ==
    IF JsIndex(row, criteriaImageMockupIndex) = << >>
    THEN criteriaDefaultImageUrl
    ELSE JsIndex(row, criteriaImageMockupIndex)

\* row[insights].split(',')
Insights(row) == Split(JsIndex(row, criteriaInsightSlidesIndex))

\* The insight slides appended before the recommendation slide.
ParseFieldsAndCreateSlide_InsightsFirst(d, insightDeck, layout, row) ==
    LET criteriaId == JsIndex(row, criteriaIdIndex)
        criteria == JsIndex(row, criteriaNameIndex)
        applicable == Applicable(JsIndex(row, criteriaAppliesIndex))
        description == Description(row)
        imageMockup == ImageMockup(row)
        insights == Insights(row)
        clientImage == RetrieveClientImage(folder, criteriaId)
        d1 == IF Len(insights) > 0
              THEN AppendInsightSlides(d, insightDeck, insights)
              ELSE d
        d2 == CreateRecommendationSlideGAS(d1, layout, criteria, applicable,
                  description, imageMockup, clientImage.ret)
        callInsights ==
              IF Len(insights) > 0
              THEN << [fn |-> "appendInsightSlides", insights |-> insights] >>
              ELSE << >>
    IN  [deck |-> d2, criteriaId |-> criteriaId,
         ret |-> clientImage.ret, toasts |-> clientImage.toasts,
         calls |-> callInsights \o
                   << [fn |-> "createRecommendationSlideGAS",
                       criteria |-> criteria, applicable |-> applicable,
                       description |-> description,
                       imageMockup |-> imageMockup,
                       clientImage |-> clientImage.ret] >>]

\* The whole handler: the deck it leaves, the toasts it raised and, in order,
\* the calls it made to the slide builder and to the insight appender.
ParseFieldsAndCreateSlide(d, insightDeck, layout, row) ==
    LET criteriaId == JsIndex(row, criteriaIdIndex)
        criteria == JsIndex(row, criteriaNameIndex)
        applicable == Applicable(JsIndex(row, criteriaAppliesIndex))
        description == Description(row)
        imageMockup == ImageMockup(row)
        insights == Insights(row)
        clientImage == RetrieveClientImage(folder, criteriaId)
        d1 == CreateRecommendationSlideGAS(d, layout, criteria, applicable,
                  description, imageMockup, clientImage.ret)
        d2 == IF Len(insights) > 0
              THEN AppendInsightSlides(d1, insightDeck, insights)
              ELSE d1
        callInsights ==
              IF Len(insights) > 0
              THEN << [fn |-> "appendInsightSlides", insights |-> insights] >>
              ELSE << >>
    IN  [deck |-> d2, criteriaId |-> criteriaId,
         ret |-> clientImage.ret, toasts |-> clientImage.toasts,
         calls |-> << [fn |-> "createRecommendationSlideGAS",
                       criteria |-> criteria, applicable |-> applicable,
                       description |-> description,
                       imageMockup |-> imageMockup,
                       clientImage |-> clientImage.ret] >>
                   \o callInsights]

(***************************************************************************)
(* applyCustomStyle                                                        *)
(***************************************************************************)
\* insightDeck.getSlideById(endSlideId.trim()), appended NOT_LINKED.
ApplyCustomStyle(d) ==
    LET endSlideId == GetProperty("END_SLIDE_ID")
    IN  Append(d, CopiedSlide(Trim(endSlideId)))

(***************************************************************************)
(* The rows of the recommendations sheet.                                  *)
(***************************************************************************)
CriteriaIds == { << "1" >>, << "1", "2" >>, << "9" >> }
CriteriaNames == { << "N" >> }
AppliesCells == { << "P", ",", "Q" >> }
ProblemCells == { << "p" >> }
SolutionCells == { << "s" >> }
ImageCells == { << >>, << "u" >> }
InsightCells == { << >>, << "S" >>, << "S", ",", "T" >>, << "T", ",", "S" >> }

\* A row of the sheet: each field in the column the configuration names.
SheetRow(id, name, applies, problem, solution, image, insights) ==
    [i \in 1..7 |->
        CASE i = ToNumber(GetProperty("RECOMMENDATIONS_CRITERIA_ID_ROW")) -> id
          [] i = ToNumber(GetProperty("RECOMMENDATIONS_CRITERIA_NAME_ROW")) -> name
          [] i = ToNumber(GetProperty("RECOMMENDATIONS_APPLIES_ROW")) -> applies
          [] i = ToNumber(GetProperty("RECOMMENDATIONS_PROBLEM_STATEMENT_ROW")) -> problem
          [] i = ToNumber(GetProperty("RECOMMENDATIONS_SOLUTION_STATEMENT_ROW")) -> solution
          [] i = ToNumber(GetProperty("RECOMMENDATIONS_IMAGE_MOCKUP_ROW")) -> image
          [] i = ToNumber(GetProperty("RECOMMENDATIONS_INSIGHTS_ROW")) -> insights]

(***************************************************************************)
(* The state machine.                                                      *)
(***************************************************************************)
NoCall ==
    [fn |-> "none", row |-> << >>, criteriaId |-> << >>, ret |-> Null,
     toasts |-> << >>, calls |-> << >>, deckBefore |-> << >>]

\* The folders a deck is generated from: no screenshot, one, several.
DeckFolders ==
    { << >>, << Notes12, Screenshot1 >>, << Screenshot12, Screenshot1 >> }

Init ==
    /\ documentProperties \in Configurations
    /\ recommendationSlideLayout \in Layouts
    /\ folder \in DeckFolders
    /\ deck = << >>
    /\ call = NoCall
    /\ cell = << >>
    /\ subtitle = << >>

\* retrieveClientImage(folder, criteriaId), called on its own.
RetrieveClientImageCall ==
    \E criteriaId \in CriteriaIds :
        LET r == RetrieveClientImage(folder, criteriaId)
        IN  /\ call' = [fn |-> "retrieveClientImage", row |-> << >>,
                        criteriaId |-> criteriaId, ret |-> r.ret,
                        toasts |-> r.toasts, calls |-> << >>,
                        deckBefore |-> deck]
            /\ UNCHANGED <<documentProperties, recommendationSlideLayout,
                           folder, deck, cell, subtitle>>

\* parseFieldsAndCreateSlide(deck, insightDeck, layout, row) for a sheet row.
ParseFieldsAndCreateSlideCall ==
    /\ Len(deck) < MaxSlides
    /\ \E id \in CriteriaIds, name \in CriteriaNames, applies \in AppliesCells,
       problem \in ProblemCells, solution \in SolutionCells,
       image \in ImageCells, insights \in InsightCells :
        LET row == SheetRow(id, name, applies, problem, solution, image, insights)
            r == ParseFieldsAndCreateSlide(deck, InsightDeck,
                                           recommendationSlideLayout, row)
        IN  /\ Len(r.deck) <= MaxSlides
            /\ deck' = r.deck
            /\ call' = [fn |-> "parseFieldsAndCreateSlide", row |-> row,
                        criteriaId |-> r.criteriaId, ret |-> r.ret,
                        toasts |-> r.toasts, calls |-> r.calls,
                        deckBefore |-> deck]
            /\ UNCHANGED <<documentProperties, recommendationSlideLayout,
                           folder, cell, subtitle>>

\* applyCustomStyle(newDeckId) on the generated deck.
ApplyCustomStyleCall ==
    /\ Len(deck) < MaxSlides
    /\ deck' = ApplyCustomStyle(deck)
    /\ call' = [fn |-> "applyCustomStyle", row |-> << >>,
                criteriaId |-> << >>, ret |-> Null, toasts |-> << >>,
                calls |-> << >>, deckBefore |-> deck]
    /\ UNCHANGED <<documentProperties, recommendationSlideLayout, folder,
                   cell, subtitle>>

Next ==
    \/ ParseFieldsAndCreateSlideCall
    \/ ApplyCustomStyleCall

Spec == Init /\ [][Next]_vars

(***************************************************************************)
(* The image resolver on its own, over every folder and criteria id.       *)
(***************************************************************************)
InitResolver ==
    /\ documentProperties \in Configurations
    /\ recommendationSlideLayout \in Layouts
    /\ folder \in { fs \in Folders(MaxFiles) : NoDuplicates(fs) }
    /\ deck = << >>
    /\ call = NoCall
    /\ cell = << >>
    /\ subtitle = << >>

NextResolver == RetrieveClientImageCall

SpecResolver == InitResolver /\ [][NextResolver]_vars

(***************************************************************************)
(* The subtitle builder on its own, over every "applies to" cell of at     *)
(* most MaxLen characters.                                                 *)
(***************************************************************************)
InitApplicable ==
    /\ documentProperties \in Configurations
    /\ recommendationSlideLayout \in Layouts
    /\ folder = << >>
    /\ deck = << >>
    /\ call = NoCall
    /\ cell \in Strings({ "P", "Q", "," }, MaxLen)
    /\ subtitle = << >>

BuildSubtitle ==
    /\ subtitle = << >>
    /\ subtitle' = Applicable(cell)
    /\ UNCHANGED <<documentProperties, recommendationSlideLayout, folder,
                   deck, call, cell>>

NextApplicable == BuildSubtitle

SpecApplicable == InitApplicable /\ [][NextApplicable]_vars

(***************************************************************************)
(* Properties of the image resolver (checked under SpecResolver).          *)
(***************************************************************************)
Resolved == call.fn = "retrieveClientImage"

\* The files of the folder that match the criteria id, in enumeration order.
Matches == SearchFiles(folder, call.criteriaId)

\* C1: with two or more matching image files the resolver returns the last
\* enumerated match and raises exactly one warning toast.
C1_LastMatchReturned ==
    (Resolved /\ Len(Matches) >= 2) =>
        /\ call.ret = FileRef(Matches[Len(Matches)])
        /\ Len(call.toasts) = 1

\* C2: with no matching file the resolver returns the DEFAULT_IMAGE_MOCKUP
\* property, never null, and raises exactly one toast: the "no image found"
\* text followed by the criteria id.
C2_NoMatchReturnsDefault ==
    (Resolved /\ Matches = << >>) =>
        /\ call.ret = Str(documentProperties.DEFAULT_IMAGE_MOCKUP)
        /\ call.ret # Null
        /\ Len(call.toasts) = 1
        /\ call.toasts[1].text = WARNING_NO_IMAGES \o call.criteriaId

C2_Witness ==
    /\ Resolved
    /\ Matches = << >>
    /\ folder # << >>
    /\ Len(call.toasts) = 1

\* C3: with exactly one matching image file the resolver returns that file
\* and raises no toast.
C3_SingleMatchNoToast ==
    (Resolved /\ Len(Matches) = 1) =>
        /\ call.ret = FileRef(Matches[1])
        /\ call.toasts = << >>

C3_Witness ==
    /\ Resolved
    /\ Len(Matches) = 1
    /\ Len(folder) >= 2
    /\ call.ret.type = "file"

NoMatchToasts == RetrieveClientImage(<< >>, call.criteriaId).toasts

\* C9: the toast of the several-matches case has the text of the toast of the
\* no-match case for the same criteria id, and no call raises both toasts.
C9_SameTextNeverBoth ==
    /\ (Resolved /\ Len(Matches) >= 2) =>
           /\ Len(call.toasts) = 1
           /\ call.toasts[1].at = "multiple-images"
           /\ Len(NoMatchToasts) = 1
           /\ NoMatchToasts[1].at = "no-images"
           /\ call.toasts[1].text = NoMatchToasts[1].text
           /\ call.toasts[1].text = WARNING_NO_IMAGES \o call.criteriaId
    /\ Resolved =>
           ~ \E i, j \in DOMAIN call.toasts :
                 /\ call.toasts[i].at = "no-images"
                 /\ call.toasts[j].at = "multiple-images"

C9_Witness ==
    /\ Resolved
    /\ Len(Matches) >= 2
    /\ \E i \in DOMAIN call.toasts : call.toasts[i].at = "multiple-images"

(***************************************************************************)
(* Properties of the row handler and the slide builder (checked under      *)
(* Spec).                                                                  *)
(***************************************************************************)
Parsed == call.fn = "parseFieldsAndCreateSlide"

\* The cell of the handled row at a configured, 1-based offset.
RowCell(property) == call.row[ToNumber(documentProperties[property])]

\* The positions, in the handler's call sequence, of the calls to fn.
CallsTo(fn) == { i \in DOMAIN call.calls : call.calls[i].fn = fn }

\* C4: a blank image-mockup cell makes the primary image handed to the slide
\* builder the DEFAULT_IMAGE_MOCKUP value; a non-blank cell is handed over
\* unchanged.
C4_BlankImageCellGivesDefault ==
    Parsed =>
        /\ CallsTo("createRecommendationSlideGAS") # {}
        /\ \A i \in CallsTo("createRecommendationSlideGAS") :
               LET imageCell == RowCell("RECOMMENDATIONS_IMAGE_MOCKUP_ROW")
               IN  /\ imageCell = << >> =>
                          call.calls[i].imageMockup
                              = documentProperties.DEFAULT_IMAGE_MOCKUP
                   /\ imageCell # << >> =>
                          call.calls[i].imageMockup = imageCell

C4_Witness ==
    /\ Parsed
    /\ RowCell("RECOMMENDATIONS_IMAGE_MOCKUP_ROW") = << >>
    /\ \E i \in CallsTo("createRecommendationSlideGAS") :
           call.calls[i].imageMockup = documentProperties.DEFAULT_IMAGE_MOCKUP

\* The insights cell lists ids: comma-separated ids of slides of the insights deck.
ListsInsightIds(ids) ==
    /\ ids # << >>
    /\ \A i \in DOMAIN ids : ids[i] \in InsightDeck
    /\ Join(ids) = RowCell("RECOMMENDATIONS_INSIGHTS_ROW")

\* C5: for a row whose insights cell lists ids S1,...,Sn the handler first
\* appends the recommendation slide and only then hands the ids, in the
\* cell's left-to-right order, to the insight appender; the deck gains the
\* recommendation slide followed by the copies of S1,...,Sn in that order.
C5_InsightsFollowRecommendation ==
    \A ids \in { << << "S" >> >>, << << "T" >> >>,
                 << << "S" >>, << "T" >> >>, << << "T" >>, << "S" >> >> } :
        (Parsed /\ ListsInsightIds(ids)) =>
            LET n == Len(call.deckBefore)
            IN  /\ Len(call.calls) = 2
                /\ call.calls[1].fn = "createRecommendationSlideGAS"
                /\ call.calls[2].fn = "appendInsightSlides"
                /\ call.calls[2].insights = ids
                /\ Len(deck) = n + 1 + Len(ids)
                /\ SubSeq(deck, 1, n) = call.deckBefore
                /\ deck[n + 1].kind = "recommendation"
                /\ \A i \in DOMAIN ids : deck[n + 1 + i] = CopiedSlide(ids[i])

C5_Witness ==
    /\ Parsed
    /\ ListsInsightIds(<< << "T" >>, << "S" >> >>)
    /\ Len(deck) = 3
    /\ deck[2] = CopiedSlide(<< "T" >>)
    /\ deck[3] = CopiedSlide(<< "S" >>)

\* C8: for a row whose insights cell is blank the insight appender is not
\* called, and no id (in particular no empty id) is handed to it.
C8_BlankInsightsNoAppenderCall ==
    (Parsed /\ RowCell("RECOMMENDATIONS_INSIGHTS_ROW") = << >>) =>
        CallsTo("appendInsightSlides") = {}

\* The bounding box of a named shape of the template layout.
Anchor(name) ==
    CHOOSE sh \in recommendationSlideLayout.shapes : sh.name = name

ImageAt(src, sh) ==
    [src |-> src, left |-> sh.left, top |-> sh.top,
     width |-> sh.width, height |-> sh.height]

\* The number of recommendation slides of a deck.
Recommendations(d) ==
    Cardinality({ i \in DOMAIN d : d[i].kind = "recommendation" })

C6_SubtitleKeepsCell ==
    /\ Join(Split(cell)) = cell
    /\ subtitle # << >> => subtitle = APPLIES_FOR \o cell

C6_Witness ==
    /\ subtitle # << >>
    /\ Len(Split(cell)) >= 3
    /\ subtitle = APPLIES_FOR \o cell

====
